---- MODULE Spec2Model ----
(***************************************************************************)
(* Model of ntb_location (src/src/main.rs): an axum service with two       *)
(* handlers over one SQLite table `locations`.                             *)
(*                                                                         *)
(*   POST /  post_location      validate source, INSERT ... RETURNING *    *)
(*   GET  /  get_all_locations  decode the query string, validate source,  *)
(*                              SELECT with three optional predicates      *)
(*                                                                         *)
(* Strings are sequences of code points.  A timestamp text keeps the       *)
(* characters in which two timestamps of the model can differ: the         *)
(* date/time separator (' ' or 'T'), the two digits of the seconds and an  *)
(* optional fraction ('.' and digits); the date and the hh:mm: prefix are  *)
(* the same in every text and are left out.                                *)
(***************************************************************************)
EXTENDS Integers, Sequences, FiniteSets, TLC

VARIABLES
    table,      \* the rows of `locations`, in rowid order
    clock,      \* the store's clock, in seconds (CURRENT_TIMESTAMP)
    req,        \* per request: position in its handler, input, outcome
    obs,        \* per request: history of what it did to the store
    returned,   \* history: ids returned by successful INSERTs, in order
    label,      \* input of a stand-alone sanitise_string call
    verdict     \* its result: "unset", "valid" or "invalid"

vars == <<table, clock, req, obs, returned, label, verdict>>

----------------------------------------------------------------------------
(* Bounds *)

MaxRows == 2
MaxClock == 1
MaxLen == 3

Reqs == {"r1", "r2"}

----------------------------------------------------------------------------
(* Option and Result values *)

NoneV == [tag |-> "None"]
Some(v) == [tag |-> "Some", val |-> v]
Ok(v) == [tag |-> "Ok", val |-> v]
Err(e) == [tag |-> "Err", err |-> e]

----------------------------------------------------------------------------
(* Characters *)

SP == 32
DOT == 46
CH_T == 84
IsDigit(c) == c \in 48..57

----------------------------------------------------------------------------
(* SANITISATION_REGEX = ^[a-zA-Z0-9_ ]+$ and Regex::is_match *)

\* the bracket class [a-zA-Z0-9_ ]
InClass(c) == \/ c \in 97..122
              \/ c \in 65..90
              \/ c \in 48..57
              \/ c = 95
              \/ c = 32

\* position after the longest run of class characters starting at i
RECURSIVE RunEnd(_, _)
RunEnd(s, i) == IF i <= Len(s) /\ InClass(s[i]) THEN RunEnd(s, i + 1) ELSE i

\* a mutant: the pattern without its end anchor, ^[a-zA-Z0-9_ ]+
RegexIsMatch_NoEndAnchor(s) ==
    \E start \in 1..(Len(s) + 1) :
        /\ start = 1
        /\ RunEnd(s, start) > start

\* is_match searches for a match anywhere; ^ pins the start to the first
\* position, + needs at least one character, $ pins the end to the end of
\* the text (the regex crate's $ does not match before a trailing newline)
RegexIsMatch(s) ==
    \E start \in 1..(Len(s) + 1) :
        /\ start = 1
        /\ RunEnd(s, start) > start
        /\ RunEnd(s, start) = Len(s) + 1

sanitise_string(s) == RegexIsMatch(s)

----------------------------------------------------------------------------
(* Timestamps: NaiveDateTime values are [sec, ms] *)

TwoDigits(n) == <<48 + (n \div 10), 48 + (n % 10)>>
ThreeDigits(n) == <<48 + (n \div 100), 48 + ((n \div 10) % 10), 48 + (n % 10)>>

\* chrono's %.f: nothing when the fraction is zero, else '.' and the digits
Fraction(ms) == IF ms = 0 THEN <<>> ELSE <<DOT>> \o ThreeDigits(ms)

AllDigits(s, from, to) == \A i \in from..to : IsDigit(s[i])

\* value of the fraction digits s[from..Len(s)], in milliseconds
FracMs(s, from) ==
    LET d(i) == IF i <= Len(s) THEN s[i] - 48 ELSE 0
    IN  100 * d(from) + 10 * d(from + 1) + d(from + 2)

\* seconds and fraction of a text whose separator is already checked
ParseClock(s) ==
    IF /\ Len(s) >= 3
       /\ AllDigits(s, 2, 3)
       /\ \/ Len(s) = 3
          \/ /\ Len(s) >= 5
             /\ s[4] = DOT
             /\ AllDigits(s, 5, Len(s))
    THEN Ok([sec |-> 10 * (s[2] - 48) + (s[3] - 48),
             ms  |-> IF Len(s) = 3 THEN 0 ELSE FracMs(s, 5)])
    ELSE Err("input contains invalid characters")

\* <NaiveDateTime as FromStr>::from_str: the separator must be 'T'
NaiveDateTime_from_str(s) ==
    IF Len(s) >= 1 /\ s[1] = CH_T
    THEN ParseClock(s)
    ELSE Err("input contains invalid characters")

\* sqlx's Encode<Sqlite> for NaiveDateTime: format("%F %T%.f")
NaiveDateTime_encode(v) == <<SP>> \o TwoDigits(v.sec) \o Fraction(v.ms)

\* sqlx's Decode<Sqlite> for NaiveDateTime: "%F %T%.f" or "%FT%T%.f"
NaiveDateTime_decode(s) ==
    IF Len(s) >= 1 /\ s[1] \in {SP, CH_T}
    THEN ParseClock(s)
    ELSE Err("invalid datetime")

\* serde's Serialize for NaiveDateTime: the Debug form, %Y-%m-%dT%H:%M:%S%.f
NaiveDateTime_serialize(v) == <<CH_T>> \o TwoDigits(v.sec) \o Fraction(v.ms)

\* String::from_str never fails
String_from_str(s) == Ok(s)

\* T::from_str for the two types the filter fields have
from_str(T, s) ==
    IF T = "String" THEN String_from_str(s) ELSE NaiveDateTime_from_str(s)

----------------------------------------------------------------------------
(* The store: SQLite table `locations` *)

\* SQLite's BINARY collation: memcmp, a proper prefix sorts first
RECURSIVE TextLeq(_, _)
TextLeq(a, b) ==
    IF a = <<>> THEN TRUE
    ELSE IF b = <<>> THEN FALSE
    ELSE IF Head(a) # Head(b) THEN Head(a) < Head(b)
    ELSE TextLeq(Tail(a), Tail(b))

Ids(t) == {t[i].id : i \in 1..Len(t)}

SetMax(S) == CHOOSE m \in S : \A x \in S : x <= m

\* rowid of an INTEGER PRIMARY KEY: one more than the largest in the table
NextId(t) == IF t = <<>> THEN 1 ELSE SetMax(Ids(t)) + 1

\* DEFAULT CURRENT_TIMESTAMP: "YYYY-MM-DD HH:MM:SS", no fraction
CurrentTimestamp(now) == <<SP>> \o TwoDigits(now)

\* a mutant: INSERT OR REPLACE keyed on source, which overwrites the row of
\* the same source
SqlInsert_Upsert(t, data, now) ==
    LET new == [id         |-> NextId(t),
                source     |-> data.source,
                latitude   |-> data.latitude,
                longitude  |-> data.longitude,
                created_at |-> CurrentTimestamp(now)]
    IN  IF \E i \in 1..Len(t) : t[i].source = data.source
        THEN [i \in 1..Len(t) |->
                 IF t[i].source = data.source THEN new ELSE t[i]]
        ELSE Append(t, new)

\* INSERT INTO locations (source, latitude, longitude) VALUES (?, ?, ?):
\* one new row; id and created_at are filled in by the store
SqlInsert(t, data, now) ==
    Append(t, [id         |-> NextId(t),
               source     |-> data.source,
               latitude   |-> data.latitude,
               longitude  |-> data.longitude,
               created_at |-> CurrentTimestamp(now)])

\* bound parameters: None binds NULL, a NaiveDateTime binds its encoded text
BindText(opt) == opt
BindDateTime(opt) ==
    IF opt.tag = "None" THEN NoneV ELSE Some(NaiveDateTime_encode(opt.val))

\* a mutant: source = ?1 without the IS NULL alternative
WhereClause_NoNullCheck(row, p1, p2, p3) ==
    /\ (p1.tag = "Some" /\ row.source = p1.val)
    /\ (p2.tag = "None" \/ TextLeq(p2.val, row.created_at))
    /\ (p3.tag = "None" \/ TextLeq(row.created_at, p3.val))

\* a mutant: created_at > ?2, an exclusive lower bound
WhereClause_StrictLower(row, p1, p2, p3) ==
    /\ (p1.tag = "None" \/ row.source = p1.val)
    /\ (p2.tag = "None" \/ ~TextLeq(row.created_at, p2.val))
    /\ (p3.tag = "None" \/ TextLeq(row.created_at, p3.val))

\* (?1 IS NULL OR source = ?1) AND (?2 IS NULL OR created_at >= ?2)
\*                             AND (?3 IS NULL OR created_at <= ?3)
WhereClause(row, p1, p2, p3) ==
    /\ (p1.tag = "None" \/ row.source = p1.val)
    /\ (p2.tag = "None" \/ TextLeq(p2.val, row.created_at))
    /\ (p3.tag = "None" \/ TextLeq(row.created_at, p3.val))

\* SELECT * FROM locations WHERE ...: the matching rows, in table order
SqlSelect(t, query) ==
    LET p1 == BindText(query.source)
        p2 == BindDateTime(query.from)
        p3 == BindDateTime(query.to)
    IN  SelectSeq(t, LAMBDA row : WhereClause(row, p1, p2, p3))

\* query_as!(DbLocData, ...): each row is decoded into a DbLocData
RowDecodes(row) == NaiveDateTime_decode(row.created_at).tag = "Ok"

DbLocData(row) ==
    [id         |-> row.id,
     source     |-> row.source,
     latitude   |-> row.latitude,
     longitude  |-> row.longitude,
     created_at |-> NaiveDateTime_decode(row.created_at).val]

\* Json(data): created_at goes out in serde's text form
JsonRow(d) ==
    [id         |-> d.id,
     source     |-> d.source,
     latitude   |-> d.latitude,
     longitude  |-> d.longitude,
     created_at |-> NaiveDateTime_serialize(d.created_at)]

\* the rows of a fetch_all, decoded; the rows of a response body
DecodeRows(rows) == [i \in 1..Len(rows) |-> DbLocData(rows[i])]
JsonRows(data) == [i \in 1..Len(data) |-> JsonRow(data[i])]

----------------------------------------------------------------------------
(* Decoding of GET / query parameters *)

\* None | Some("") => Ok(None); Some(s) => T::from_str(s).map(Some)
empty_string_as_none(opt, T) ==
    IF opt.tag = "None" \/ opt.val = <<>>
    THEN Ok(NoneV)
    ELSE LET parsed == from_str(T, opt.val)
         IN  IF parsed.tag = "Ok" THEN Ok(Some(parsed.val)) ELSE parsed

\* a mutant: only a missing value is None; "" is handed to the parser
empty_string_kept(opt, T) ==
    IF opt.tag = "None"
    THEN Ok(NoneV)
    ELSE LET parsed == from_str(T, opt.val)
         IN  IF parsed.tag = "Ok" THEN Ok(Some(parsed.val)) ELSE parsed

DeserializeGetLocQuery_EmptyKept(rawq) ==
    LET s == empty_string_kept(rawq.source, "String")
        f == empty_string_kept(rawq.from, "NaiveDateTime")
        t == empty_string_kept(rawq.to, "NaiveDateTime")
    IN  IF s.tag = "Err" THEN s
        ELSE IF f.tag = "Err" THEN f
        ELSE IF t.tag = "Err" THEN t
        ELSE Ok([source |-> s.val, from |-> f.val, to |-> t.val])

\* a mutant: a value that does not parse is dropped (.ok()) instead of
\* failing the request
parse_error_as_none(opt, T) ==
    IF opt.tag = "None" \/ opt.val = <<>>
    THEN Ok(NoneV)
    ELSE LET parsed == from_str(T, opt.val)
         IN  IF parsed.tag = "Ok" THEN Ok(Some(parsed.val)) ELSE Ok(NoneV)

DeserializeGetLocQuery_Lenient(rawq) ==
    LET s == parse_error_as_none(rawq.source, "String")
        f == parse_error_as_none(rawq.from, "NaiveDateTime")
        t == parse_error_as_none(rawq.to, "NaiveDateTime")
    IN  Ok([source |-> s.val, from |-> f.val, to |-> t.val])

\* Query<GetLocQuery>: a missing key takes the default (None); the first
\* field that fails to parse fails the extraction
DeserializeGetLocQuery(rawq) ==
    LET s == empty_string_as_none(rawq.source, "String")
        f == empty_string_as_none(rawq.from, "NaiveDateTime")
        t == empty_string_as_none(rawq.to, "NaiveDateTime")
    IN  IF s.tag = "Err" THEN s
        ELSE IF f.tag = "Err" THEN f
        ELSE IF t.tag = "Err" THEN t
        ELSE Ok([source |-> s.val, from |-> f.val, to |-> t.val])

----------------------------------------------------------------------------
(* Requests *)

IdleReq == [pc |-> "idle", kind |-> "none", raw |-> NoneV, arg |-> NoneV,
            result |-> NoneV, status |-> 0, msg |-> "", body |-> <<>>]

IdleObs == [calls |-> 0, added |-> {}, atStart |-> <<>>, atCall |-> <<>>]

BAD_REQUEST == 400
INTERNAL_SERVER_ERROR == 500
OK == 200

\* a mutant: the handler without its check
PostSourceOk_Skipped(data) == TRUE

\* if !sanitise_string(&data.source) { return BAD_REQUEST }
PostSourceOk(data) == sanitise_string(data.source)

\* a mutant: the handler without its check
GetSourceOk_NoCheck(query) == TRUE

\* if let Some(ref s) = query.source { if !sanitise_string(s) { return BAD_REQUEST } }
GetSourceOk(query) ==
    query.source.tag = "Some" => sanitise_string(query.source.val)

Respond(r, st, m, b) ==
    req' = [req EXCEPT ![r].pc = "done", ![r].status = st, ![r].msg = m,
                       ![r].body = b]

\* POST / arrives: Json<PostLocData> is extracted and the handler runs up to
\* its store call
PostArrive(r, data) ==
    /\ req[r].pc = "idle"
    /\ obs' = [obs EXCEPT ![r].atStart = table]
    /\ IF ~PostSourceOk(data)
       THEN req' = [req EXCEPT ![r] = [IdleReq EXCEPT
                        !.pc = "done", !.kind = "record", !.raw = data,
                        !.status = BAD_REQUEST, !.msg = "Invalid source"]]
       ELSE req' = [req EXCEPT ![r] = [IdleReq EXCEPT
                        !.pc = "insert", !.kind = "record", !.raw = data,
                        !.arg = data]]
    /\ UNCHANGED <<table, clock, returned, label, verdict>>

\* a mutant: the new table is computed from the rows the request saw when it
\* arrived (read, then write back), so a concurrent insert is lost
PostInsertOk_LostUpdate(r) ==
    /\ req[r].pc = "insert"
    /\ Len(table) < MaxRows
    /\ table' = SqlInsert(obs[r].atStart, req[r].arg, clock)
    /\ req' = [req EXCEPT ![r].pc = "post_result",
                          ![r].result = Ok(DbLocData(table'[Len(table')]))]
    /\ obs' = [obs EXCEPT ![r].calls = @ + 1,
                          ![r].added = @ \cup (Ids(table') \ Ids(table))]
    /\ returned' = Append(returned, table'[Len(table')].id)
    /\ UNCHANGED <<clock, label, verdict>>

\* the INSERT commits and fetch_one returns the new row
PostInsertOk(r) ==
    /\ req[r].pc = "insert"
    /\ Len(table) < MaxRows
    /\ table' = SqlInsert(table, req[r].arg, clock)
    /\ req' = [req EXCEPT ![r].pc = "post_result",
                          ![r].result = Ok(DbLocData(table'[Len(table')]))]
    /\ obs' = [obs EXCEPT ![r].calls = @ + 1,
                          ![r].added = @ \cup (Ids(table') \ Ids(table))]
    /\ returned' = Append(returned, table'[Len(table')].id)
    /\ UNCHANGED <<clock, label, verdict>>

\* a mutant: a failed insert is tried again
PostInsertErr_Retry(r) ==
    /\ req[r].pc = "insert"
    /\ obs[r].calls < 2
    /\ req' = req
    /\ obs' = [obs EXCEPT ![r].calls = @ + 1]
    /\ UNCHANGED <<table, clock, returned, label, verdict>>

\* the store call fails (no connection, constraint, timeout): nothing is
\* written
PostInsertErr(r) ==
    /\ req[r].pc = "insert"
    /\ req' = [req EXCEPT ![r].pc = "post_result",
                          ![r].result = Err("store")]
    /\ obs' = [obs EXCEPT ![r].calls = @ + 1]
    /\ UNCHANGED <<table, clock, returned, label, verdict>>

\* if let Ok(data) = result { OK } else { INTERNAL_SERVER_ERROR }
PostRespond(r) ==
    /\ req[r].pc = "post_result"
    /\ IF req[r].result.tag = "Ok"
       THEN Respond(r, OK, "Record added", <<>>)
       ELSE Respond(r, INTERNAL_SERVER_ERROR, "No record added", <<>>)
    /\ UNCHANGED <<table, clock, obs, returned, label, verdict>>

\* GET / arrives: Query<GetLocQuery> is extracted (a failure is answered
\* with 400 before the handler runs) and the handler runs up to its store call
GetArrive(r, rawq) ==
    /\ req[r].pc = "idle"
    /\ obs' = [obs EXCEPT ![r].atStart = table]
    /\ LET q == DeserializeGetLocQuery(rawq)
       IN  IF q.tag = "Err"
           THEN req' = [req EXCEPT ![r] = [IdleReq EXCEPT
                        !.pc = "done", !.kind = "query", !.raw = rawq,
                        !.status = BAD_REQUEST,
                        !.msg = "Failed to deserialize query string"]]
           ELSE IF ~GetSourceOk(q.val)
           THEN req' = [req EXCEPT ![r] = [IdleReq EXCEPT
                        !.pc = "done", !.kind = "query", !.raw = rawq,
                        !.arg = q.val,
                        !.status = BAD_REQUEST, !.msg = "Invalid source"]]
           ELSE req' = [req EXCEPT ![r] = [IdleReq EXCEPT
                        !.pc = "select", !.kind = "query", !.raw = rawq,
                        !.arg = q.val]]
    /\ UNCHANGED <<table, clock, returned, label, verdict>>

\* the SELECT runs and fetch_all returns the decoded rows
GetSelectOk(r) ==
    /\ req[r].pc = "select"
    /\ LET rows == SqlSelect(table, req[r].arg)
       IN  req' = [req EXCEPT ![r].pc = "get_result",
                     ![r].result =
                        IF \A i \in 1..Len(rows) : RowDecodes(rows[i])
                        THEN Ok(DecodeRows(rows))
                        ELSE Err("decode")]
    /\ obs' = [obs EXCEPT ![r].calls = @ + 1, ![r].atCall = table]
    /\ UNCHANGED <<table, clock, returned, label, verdict>>

\* the store call fails
GetSelectErr(r) ==
    /\ req[r].pc = "select"
    /\ req' = [req EXCEPT ![r].pc = "get_result", ![r].result = Err("store")]
    /\ obs' = [obs EXCEPT ![r].calls = @ + 1, ![r].atCall = table]
    /\ UNCHANGED <<table, clock, returned, label, verdict>>

\* if let Ok(data) = result { Json(data) } else { INTERNAL_SERVER_ERROR }
GetRespond(r) ==
    /\ req[r].pc = "get_result"
    /\ IF req[r].result.tag = "Ok"
       THEN Respond(r, OK, "", JsonRows(req[r].result.val))
       ELSE Respond(r, INTERNAL_SERVER_ERROR, "No records fetched", <<>>)
    /\ UNCHANGED <<table, clock, obs, returned, label, verdict>>

\* the response has been sent; the task ends
Finish(r) ==
    /\ req[r].pc = "done"
    /\ req' = [req EXCEPT ![r] = IdleReq]
    /\ obs' = [obs EXCEPT ![r] = IdleObs]
    /\ UNCHANGED <<table, clock, returned, label, verdict>>

\* time passes at the store
Tick ==
    /\ clock < MaxClock
    /\ clock' = clock + 1
    /\ UNCHANGED <<table, req, obs, returned, label, verdict>>

----------------------------------------------------------------------------
(* Inputs *)

STR_g == <<103>>
STR_w == <<119>>
STR_bad == <<103, 33>>

Latitudes == {91}
Longitudes == {7}

PostInputs ==
    [source : {STR_g, STR_w, STR_bad, <<>>},
     latitude : Latitudes, longitude : Longitudes]

TXT_T01 == <<CH_T>> \o TwoDigits(1)

GetInputs ==
    [source : {NoneV, Some(STR_g), Some(STR_bad)},
     from : {NoneV},
     to : {NoneV}]

----------------------------------------------------------------------------
(* Specification: concurrent requests *)

Init ==
    /\ table = <<>>
    /\ clock = 0
    /\ req = [r \in Reqs |-> IdleReq]
    /\ obs = [r \in Reqs |-> IdleObs]
    /\ returned = <<>>
    /\ label = <<>>
    /\ verdict = "unset"

Next ==
    \/ \E r \in Reqs : \E data \in PostInputs : PostArrive(r, data)
    \/ \E r \in Reqs : PostInsertOk(r)
    \/ \E r \in Reqs : PostInsertErr(r)
    \/ \E r \in Reqs : PostRespond(r)
    \/ \E r \in Reqs : \E rawq \in GetInputs : GetArrive(r, rawq)
    \/ \E r \in Reqs : GetSelectOk(r)
    \/ \E r \in Reqs : GetSelectErr(r)
    \/ \E r \in Reqs : GetRespond(r)
    \/ \E r \in Reqs : Finish(r)
    \/ Tick

Spec == Init /\ [][Next]_vars

---------------------------------------------------------------------------------------------------------------------------------------------------
(* Specification: queries of every filter shape over every table that       *)
(* MaxRows inserts can leave                                                *)

TXT_T00 == <<CH_T>> \o TwoDigits(0)
TXT_T01_5 == <<CH_T>> \o TwoDigits(1) \o <<DOT, 53>>
TXT_S01 == <<SP>> \o TwoDigits(1)

RawTimes == {NoneV, Some(<<>>), Some(TXT_T00), Some(TXT_T01),
             Some(TXT_T01_5), Some(TXT_S01)}

FilterInputs ==
    [source : {NoneV, Some(<<>>), Some(STR_g), Some(STR_w), Some(STR_bad)},
     from : RawTimes,
     to : RawTimes]

RecorderInputs ==
    [source : {STR_g, STR_w},
     latitude : Latitudes, longitude : Longitudes]

\* the table after inserting datas[1..k] at the times times[1..k]
RECURSIVE TableAfter(_, _, _)
TableAfter(datas, times, k) ==
    IF k = 0 THEN <<>>
    ELSE SqlInsert(TableAfter(datas, times, k - 1), datas[k], times[k])

InitFilter ==
    /\ \E n \in 0..MaxRows :
       \E datas \in [1..n -> RecorderInputs] :
       \E times \in [1..n -> 0..MaxClock] :
          /\ \A i \in 1..n : \A j \in 1..n : i <= j => times[i] <= times[j]
          /\ table = TableAfter(datas, times, n)
          /\ clock = IF n = 0 THEN 0 ELSE times[n]
          /\ returned = [i \in 1..n |-> table[i].id]
    /\ req = [r \in Reqs |-> IdleReq]
    /\ obs = [r \in Reqs |-> IdleObs]
    /\ label = <<>>
    /\ verdict = "unset"

NextFilter ==
    \/ \E rawq \in FilterInputs : GetArrive("r1", rawq)
    \/ GetSelectOk("r1")
    \/ GetSelectErr("r1")
    \/ GetRespond("r1")
    \/ Finish("r1")

SpecFilter == InitFilter /\ [][NextFilter]_vars

-----
(* Specification: sanitise_string on every short string over an alphabet    *)
(* holding the ends of each range of the class and their neighbours         *)

Alphabet == {10, 32, 33, 47, 48, 57, 58, 64, 65, 90, 91, 95, 96, 97, 122,
             123, 233}

Labels == UNION {[1..n -> Alphabet] : n \in 0..MaxLen}

InitLabel ==
    /\ table = <<>>
    /\ clock = 0
    /\ req = [r \in Reqs |-> IdleReq]
    /\ obs = [r \in Reqs |-> IdleObs]
    /\ returned = <<>>
    /\ label \in Labels
    /\ verdict = "unset"

Sanitise ==
    /\ verdict = "unset"
    /\ verdict' = IF sanitise_string(label) THEN "valid" ELSE "invalid"
    /\ UNCHANGED <<table, clock, req, obs, returned, label>>

NextLabel == Sanitise

SpecLabel == InitLabel /\ [][NextLabel]_vars

----------------------------------------------------------------------------
(* Vocabulary of the properties *)

Range(f) == {f[i] : i \in DOMAIN f}

Letters == (65..90) \cup (97..122)
Digits == 48..57
LabelChars == Letters \cup Digits \cup {95, 32}

\* the label rule as the documentation states it
ValidLabel(s) == Len(s) >= 1 /\ \A i \in 1..Len(s) : s[i] \in LabelChars

\* a filter field that is omitted or supplied empty
Absent(opt) == opt.tag = "None" \/ opt.val = <<>>

\* the instant a timestamp text denotes, in milliseconds
DigitAt(s, i) == IF i <= Len(s) THEN s[i] - 48 ELSE 0
Instant(s) ==
    1000 * (10 * DigitAt(s, 2) + DigitAt(s, 3))
    + 100 * DigitAt(s, 5) + 10 * DigitAt(s, 6) + DigitAt(s, 7)

\* row of a response body and row of the table show the same record
SameRecord(j, row) ==
    /\ j.id = row.id
    /\ j.source = row.source
    /\ j.latitude = row.latitude
    /\ j.longitude = row.longitude
    /\ Instant(j.created_at) = Instant(row.created_at)

\* the predicates of a raw filter, read as the documentation reads them
Satisfies(row, rawq) ==
    /\ (Absent(rawq.source) \/ row.source = rawq.source.val)
    /\ (Absent(rawq.from) \/ Instant(row.created_at) >= Instant(rawq.from.val))
    /\ (Absent(rawq.to) \/ Instant(row.created_at) <= Instant(rawq.to.val))

IsRecord(r) == req[r].kind = "record"
IsQuery(r) == req[r].kind = "query"
Answered(r, st) == req[r].pc = "done" /\ req[r].status = st

----------------------------------------------------------------------------
(* C1: a Record whose source is empty or holds a character outside ASCII    *)
(* letters, digits, underscore and space is answered 400 without a store    *)
(* call: it adds no row, and no row with such a source is ever stored.      *)

C1_InvalidRecordRejected ==
    /\ \A r \in Reqs :
          (IsRecord(r) /\ ~ValidLabel(req[r].raw.source)) =>
              /\ Answered(r, BAD_REQUEST)
              /\ req[r].result = NoneV
              /\ obs[r].calls = 0
              /\ obs[r].added = {}
    /\ \A i \in 1..Len(table) : ValidLabel(table[i].source)

\* both kinds of invalid source have been rejected while the table is empty
C1_Witness ==
    /\ table = <<>>
    /\ \E r1 \in Reqs : \E r2 \in Reqs :
          /\ IsRecord(r1) /\ req[r1].raw.source = STR_bad
          /\ Answered(r1, BAD_REQUEST)
          /\ IsRecord(r2) /\ req[r2].raw.source = <<>>
          /\ Answered(r2, BAD_REQUEST)

----------------------------------------------------------------------------
(* C2: concurrent Records with valid sources whose insert does not fail all *)
(* succeed; the table holds one row per successful insert, the ids are      *)
(* pairwise distinct and distinct from every id returned earlier, and each  *)
(* returned row is still in the table as it was inserted.                   *)

C2_ConcurrentRecordsDistinctIds ==
    /\ Len(table) = Len(returned)
    /\ Ids(table) = Range(returned)
    /\ \A i \in 1..Len(returned) : \A j \in 1..Len(returned) :
          i # j => returned[i] # returned[j]
    /\ \A i \in 1..Len(table) : \A j \in 1..Len(table) :
          i # j => table[i].id # table[j].id
    /\ \A r \in Reqs :
          (IsRecord(r) /\ req[r].result.tag = "Ok") =>
              /\ req[r].pc = "done" => req[r].status = OK
              /\ \E i \in 1..Len(table) :
                    /\ table[i].id = req[r].result.val.id
                    /\ table[i].source = req[r].raw.source
                    /\ table[i].latitude = req[r].raw.latitude
                    /\ table[i].longitude = req[r].raw.longitude
    /\ \A r1 \in Reqs : \A r2 \in Reqs :
          (/\ r1 # r2
           /\ IsRecord(r1) /\ req[r1].result.tag = "Ok"
           /\ IsRecord(r2) /\ req[r2].result.tag = "Ok") =>
              req[r1].result.val.id # req[r2].result.val.id
    /\ \A r \in Reqs :
          (IsRecord(r) /\ ValidLabel(req[r].raw.source)
                       /\ req[r].result.tag # "Err") =>
              req[r].status \in {0, OK}

\* two Records that both arrived before either insert was committed have
\* both been answered 200
C2_Witness ==
    /\ Len(table) = 2
    /\ \A r \in Reqs :
          /\ IsRecord(r)
          /\ Answered(r, OK)
          /\ obs[r].atStart = <<>>

----------------------------------------------------------------------------
(* C3: a successful Query with source, from and to all absent returns every *)
(* row that was in the table when the Query started, each exactly once, and *)
(* returns only rows that were recorded.                                    *)

C3_UnfilteredQueryReturnsAll ==
    \A r \in Reqs :
        (/\ IsQuery(r)
         /\ req[r].raw = [source |-> NoneV, from |-> NoneV, to |-> NoneV]
         /\ Answered(r, OK)) =>
            LET b == req[r].body
            IN  /\ \A i \in 1..Len(b) : \A j \in 1..Len(b) :
                      i # j => b[i].id # b[j].id
                /\ \A k \in 1..Len(obs[r].atStart) :
                      \E i \in 1..Len(b) : SameRecord(b[i], obs[r].atStart[k])
                /\ \A i \in 1..Len(b) :
                      /\ b[i].id \in Range(returned)
                      /\ \E k \in 1..Len(table) : SameRecord(b[i], table[k])

\* an unfiltered Query that started with one row stored has returned two
C3_Witness ==
    \E r \in Reqs :
        /\ IsQuery(r)
        /\ req[r].raw = [source |-> NoneV, from |-> NoneV, to |-> NoneV]
        /\ Answered(r, OK)
        /\ Len(obs[r].atStart) = 1
        /\ Len(req[r].body) = 2

----------------------------------------------------------------------------
(* C4: a successful Query returns exactly the rows of the table it scanned  *)
(* that satisfy every present predicate (source equal, createdAt >= from,   *)
(* createdAt <= to, both bounds inclusive), each once; the createdAt text   *)
(* of a returned row parses as a filter bound denoting the same instant.    *)

C4_QueryReturnsExactlyMatching ==
    \A r \in Reqs :
        (IsQuery(r) /\ Answered(r, OK)) =>
            LET b == req[r].body
                t == obs[r].atCall
            IN  /\ {b[i].id : i \in 1..Len(b)} =
                   {t[k].id : k \in {k \in 1..Len(t) :
                                        Satisfies(t[k], req[r].raw)}}
                /\ \A i \in 1..Len(b) : \A j \in 1..Len(b) :
                      i # j => b[i].id # b[j].id
                /\ \A i \in 1..Len(b) :
                      /\ \E k \in 1..Len(t) : SameRecord(b[i], t[k])
                      /\ NaiveDateTime_from_str(b[i].created_at).tag = "Ok"

\* from = to = T01 returned the row created at second 1 and not the other
C4_Witness ==
    \E r \in Reqs :
        /\ IsQuery(r)
        /\ req[r].raw.from = Some(TXT_T01)
        /\ req[r].raw.to = Some(TXT_T01)
        /\ Answered(r, OK)
        /\ Len(obs[r].atCall) = 2
        /\ Len(req[r].body) = 1
        /\ Instant(req[r].body[1].created_at) = 1000

----------------------------------------------------------------------------
(* C5: a Query with a filter field supplied as the empty string has the     *)
(* outcome of the same Query with that field omitted: the field is decoded  *)
(* to "absent", an empty source is not rejected as an invalid source, and   *)
(* the rows returned are those the Query without the field returns from the *)
(* same table.                                                              *)

Omit(opt) == IF Absent(opt) THEN NoneV ELSE opt
Omitted(rawq) == [source |-> Omit(rawq.source), from |-> Omit(rawq.from),
                  to |-> Omit(rawq.to)]
HasEmptyField(rawq) ==
    Some(<<>>) \in {rawq.source, rawq.from, rawq.to}

\* C5: decoded filter, status and rows equal those of the Query with the
\* empty fields omitted
C5_EmptyFieldIsAbsent ==
    \A r \in Reqs :
        (IsQuery(r) /\ HasEmptyField(req[r].raw)) =>
            LET d == DeserializeGetLocQuery(Omitted(req[r].raw))
            IN  /\ req[r].raw.source = Some(<<>>) => req[r].msg # "Invalid source"
                /\ d.tag = "Err" => Answered(r, BAD_REQUEST)
                /\ d.tag = "Ok" =>
                      /\ req[r].arg = d.val
                      /\ \A f \in {"source", "from", "to"} :
                            req[r].raw[f] = Some(<<>>) => req[r].arg[f] = NoneV
                      /\ Answered(r, BAD_REQUEST) <=> ~GetSourceOk(d.val)
                      /\ Answered(r, OK) =>
                            req[r].body =
                               JsonRows(DecodeRows(
                                   SqlSelect(obs[r].atCall, d.val)))

\* a Query with all three fields empty has returned both stored rows
C5_Witness ==
    \E r \in Reqs :
        /\ IsQuery(r)
        /\ req[r].raw = [source |-> Some(<<>>), from |-> Some(<<>>),
                         to |-> Some(<<>>)]
        /\ Answered(r, OK)
        /\ Len(req[r].body) = 2

----------------------------------------------------------------------------
(* C6: a Query whose from or to is non-empty and does not parse as a        *)
(* timestamp is answered 400 without a store call, whatever the other       *)
(* fields are.                                                              *)

Unparsable(opt) ==
    ~Absent(opt) /\ NaiveDateTime_from_str(opt.val).tag = "Err"

\* C6: an unparsable from or to is answered 400 with no store call
C6_MalformedTimeRejected ==
    \A r \in Reqs :
        (IsQuery(r) /\ (Unparsable(req[r].raw.from) \/ Unparsable(req[r].raw.to))) =>
            /\ Answered(r, BAD_REQUEST)
            /\ req[r].result = NoneV
            /\ obs[r].calls = 0
            /\ obs[r].added = {}

\* a Query with a valid source, a valid from and an unparsable to has been
\* rejected while rows are stored
C6_Witness ==
    \E r \in Reqs :
        /\ IsQuery(r)
        /\ req[r].raw.source = Some(STR_g)
        /\ req[r].raw.from = Some(TXT_T01)
        /\ req[r].raw.to = Some(TXT_S01)
        /\ Answered(r, BAD_REQUEST)
        /\ Len(table) = 2

----------------------------------------------------------------------------
(* C7: for a non-empty source s, Record with s is rejected as an invalid    *)
(* source iff Query with s is; a Query rejected so makes no store call; a   *)
(* Query filtering on the source of a stored row is never rejected so.      *)

InvalidInput(r) == req[r].msg = "Invalid source"

\* C7: Record and Query reject the same non-empty sources
C7_SameValidationOnBothPaths ==
    /\ \A r1 \in Reqs : \A r2 \in Reqs :
          (/\ IsRecord(r1) /\ IsQuery(r2)
           /\ req[r1].raw.source # <<>>
           /\ req[r2].raw.source = Some(req[r1].raw.source)) =>
              (InvalidInput(r1) <=> InvalidInput(r2))
    /\ \A r \in Reqs :
          (IsQuery(r) /\ InvalidInput(r)) =>
              /\ Answered(r, BAD_REQUEST)
              /\ obs[r].calls = 0
    /\ \A r \in Reqs : \A i \in 1..Len(table) :
          (IsQuery(r) /\ req[r].raw.source = Some(table[i].source)) =>
              ~InvalidInput(r)

\* a Record was accepted under a source and a Query filtering on that source
\* has returned its row
C7_Witness ==
    \E r1 \in Reqs : \E r2 \in Reqs :
        /\ IsRecord(r1) /\ req[r1].raw.source = STR_g
        /\ req[r1].result.tag = "Ok"
        /\ IsQuery(r2) /\ req[r2].raw.source = Some(STR_g)
        /\ Answered(r2, OK)
        /\ \E i \in 1..Len(req[r2].body) :
              req[r2].body[i].id = req[r1].result.val.id

----------------------------------------------------------------------------
(* C8: sanitise_string(s) is true iff s has at least one character and      *)
(* every character is an ASCII letter, an ASCII digit, underscore or space. *)

C8_SanitiseStringIsLabelRule ==
    verdict # "unset" => (verdict = "valid" <=> ValidLabel(label))

\* a string whose only character outside the set is the middle one is refused
C8_Witness ==
    /\ verdict = "invalid"
    /\ Len(label) = 3
    /\ label[1] \in LabelChars
    /\ label[2] \notin LabelChars
    /\ label[3] \in LabelChars

----------------------------------------------------------------------------
(* C9: a request makes at most one store call.  Answered 200, it made one   *)
(* call that succeeded and, for Record, added exactly one row; answered     *)
(* 500, it made one call that failed and added no row; answered 400, it     *)
(* made no call.  A Query adds no row.                                      *)

C9_OneStoreCallNoPartialSuccess ==
    \A r \in Reqs :
        /\ obs[r].calls <= 1
        /\ Cardinality(obs[r].added) <= 1
        /\ IsQuery(r) => obs[r].added = {}
        /\ req[r].result.tag = "Err" => obs[r].added = {}
        /\ req[r].pc = "done" =>
              /\ req[r].status \in {OK, BAD_REQUEST, INTERNAL_SERVER_ERROR}
              /\ req[r].status = OK =>
                    /\ obs[r].calls = 1
                    /\ req[r].result.tag = "Ok"
                    /\ IsRecord(r) => Cardinality(obs[r].added) = 1
              /\ req[r].status = INTERNAL_SERVER_ERROR =>
                    /\ obs[r].calls = 1
                    /\ req[r].result.tag = "Err"
                    /\ obs[r].added = {}
              /\ req[r].status = BAD_REQUEST =>
                    /\ obs[r].calls = 0
                    /\ obs[r].added = {}

\* a Record answered 500 beside a Record answered 200, one row stored
C9_Witness ==
    /\ Len(table) = 1
    /\ \E r1 \in Reqs : \E r2 \in Reqs :
          /\ IsRecord(r1) /\ Answered(r1, INTERNAL_SERVER_ERROR)
          /\ IsRecord(r2) /\ Answered(r2, OK)

----------------------------------------------------------------------------
(* C10: the table is append-only.  Every step keeps every stored row as it  *)
(* is; a new row gets an id no stored row has and the store's current time, *)
(* and a Record's input carries neither; only a step of a Record's insert   *)
(* changes the table.                                                       *)

InsertStep ==
    \E r \in Reqs : req[r].pc = "insert" /\ req'[r].pc = "post_result"

AppendOnlyStep ==
    /\ Len(table') >= Len(table)
    /\ \A i \in 1..Len(table) : table'[i] = table[i]
    /\ \A i \in (Len(table) + 1)..Len(table') :
          /\ table'[i].id \notin Ids(table)
          /\ Instant(table'[i].created_at) = 1000 * clock
    /\ ~InsertStep => table' = table
    /\ \A r \in Reqs :
          IsRecord(r) => DOMAIN req[r].raw = {"source", "latitude", "longitude"}

\* C10: every step keeps the stored rows and only an insert adds one
C10_AppendOnly == [][AppendOnlyStep]_vars

\* two rows are stored, created at different times, after a failed Record
\* and a Query
C10_Witness ==
    /\ Len(table) = 2
    /\ table[1].created_at # table[2].created_at
    /\ \E r1 \in Reqs : \E r2 \in Reqs :
          /\ IsRecord(r1) /\ Answered(r1, INTERNAL_SERVER_ERROR)
          /\ IsQuery(r2) /\ Answered(r2, OK)

====
